---- MODULE Spec2Model ----
(***************************************************************************)
(* The Service reconciler of the VirtualService operator                   *)
(* (controllers package, placeholder-capable variant) together with the    *)
(* route helpers of the utils package, over an object store that holds     *)
(* Services and VirtualServices.                                           *)
(*                                                                         *)
(* A handler is modelled at the granularity of its store calls: every      *)
(* r.Get / r.List / r.Create / r.Update / r.Delete is one step, and the    *)
(* local computation between two calls belongs to the step of the call     *)
(* that precedes it.  The external actor (creating and deleting REAL       *)
(* Services), the garbage collector of the store and the work queue that   *)
(* delivers keys are the environment.                                      *)
(***************************************************************************)
EXTENDS Integers, Sequences, FiniteSets, TLC

VARIABLES
    svc,      \* the Service collection: [Names \X Namespaces -> Service]
    vs,       \* the VirtualService collection, by workload name
    rvc,      \* last resourceVersion the store handed out, per VirtualService
    uidc,     \* last UID handed out to a default-namespace Service, per name
    pending,  \* keys <<name, namespace>> waiting in the work queue
    h,        \* per worker: the frame of the Reconcile call it is executing
    enable,   \* config.EnablePlaceholderServices
    budget,   \* external changes and store failures still allowed (bounds the exploration)
    stable,   \* ghost: per worker, no external change to its workload since it began
    done,     \* ghost: per workload, the upserts handled since its population shrank
    last      \* ghost: the upsert handled last, and the VirtualService it left

vars == <<svc, vs, rvc, uidc, pending, h, enable, budget, stable, done, last>>

----------------------------------------------------------------------------
(* Configuration and universe *)

DefaultNamespace == "default"

DeveloperNamespaces == <<"dev1", "dev2">>

DevNs == {DeveloperNamespaces[i] : i \in 1..Len(DeveloperNamespaces)}

WatchedNamespaces == {DefaultNamespace} \cup DevNs

\* Names in the order in which a List of a namespace returns them.
NamesSeq == <<"aux", "kube-dns", "web">>

Names == {NamesSeq[i] : i \in 1..Len(NamesSeq)}

Keys == Names \X WatchedNamespaces

\* A namespace of the cluster that the configuration does not name.
OtherNamespace == "other"

AllNamespaces == WatchedNamespaces \cup {OtherNamespace}

AllKeys == Names \X AllNamespaces

\* The Services the external actor creates and deletes: web in every watched
\* namespace, aux in the default and one developer namespace, and one system
\* Service in the default and one developer namespace.
ExtKeys ==
    {<<"web", "default">>, <<"web", "dev1">>, <<"web", "dev2">>,
     <<"aux", "default">>, <<"aux", "dev1">>,
     <<"kube-dns", "default">>, <<"kube-dns", "dev1">>}

\* The part of it that concerns web.
WebKeys == {k \in ExtKeys : k[1] = "web"}

\* The controller is built with the default options: one worker, so one
\* Reconcile call at a time.
Workers == {1}

\* The production Deployment of the deployment guide runs two replicas of the
\* operator, and its arguments switch no leader election on: both instances
\* are active, each with its own watch, its own work queue and its one worker,
\* on the same store.
Replicas == {1, 2}

\* Bound: number of changes the external actor makes in one behaviour.
MaxExt == 4

\* Bound: the same, where two instances of the operator run.
MaxExtReplicas == 2

\* Bound: the same, where the external actor only deletes Services.
MaxExtRace == 2

\* Bound: the same, where the store fails.
MaxExtRetry == 4

\* Bound: the length of the rule lists the removal of a namespace's route is
\* applied to.
MaxRules == 3

\* Bound: external changes and store failures where the two controller
\* variants are compared.
MaxExtVariant == 4

\* Bound: external changes where the events of two workloads are handled.
MaxExtTwo == 4

\* Bound: resourceVersions handed out to one VirtualService while other
\* clients write it.
MaxRv == 7

\* wait.Backoff{Steps: 5}
Steps == 5

----------------------------------------------------------------------------
(* Objects *)

NoSvc == [exists |-> FALSE, ann |-> FALSE, ext |-> "", lbl |-> FALSE, uid |-> 0]

\* A Service created by the external actor: no placeholder annotation, not of
\* type ExternalName, no legacy label.
RealSvc(u) == [exists |-> TRUE, ann |-> FALSE, ext |-> "", lbl |-> FALSE, uid |-> u]

\* The placeholder built by createSinglePlaceholderService and
\* createPlaceholderServices: annotation "true", type ExternalName, external
\* name <name>.<config.DefaultNamespace>.svc.cluster.local (ext holds the
\* namespace part of the external name).
PlaceholderSvc == [exists |-> TRUE, ann |-> TRUE, ext |-> DefaultNamespace,
                   lbl |-> FALSE, uid |-> 0]

NoVS == [exists |-> FALSE, managed |-> FALSE, http |-> <<>>, rv |-> 0, owner |-> 0,
         name |-> <<>>, ns |-> "", hosts |-> {}]

\* fmt.Sprintf("%s-virtual-service", serviceName), as its two parts.
VSName(n) == <<n, "virtual-service">>

NoDone == [def |-> FALSE, dev |-> {}]

NoLast == [valid |-> FALSE, key |-> <<"", "">>, vsx |-> FALSE, http |-> <<>>]

\* The route without a match, to <name>.<defaultNamespace>.svc.cluster.local.
DefaultRoute(n) == [hdr |-> "", host |-> <<n, DefaultNamespace>>]

\* The route matching x-developer exactly against the namespace.
DevRoute(n, ns) == [hdr |-> ns, host |-> <<n, ns>>]

\* Variant of isSystemService with an empty list of system Services.
isSystemService_None(n) == FALSE

isSystemService(n) == n \in {"kubernetes", "kube-dns", "kube-system"}

\* Variant of isPlaceholderService that recognises no placeholder.
isPlaceholderService_Never(s) == FALSE

\* Annotation, then ExternalName ending in ".default.svc.cluster.local", then
\* the legacy label.
isPlaceholderService(s) ==
    \/ s.ann
    \/ s.ext = "default"
    \/ s.lbl

\* Variant of IsManagedByOperator that takes every VirtualService as managed.
IsManagedByOperator_Always(v) == TRUE

\* The label managed-by = virtualservice-operator is present.
IsManagedByOperator(v) == v.managed

\* Variant of GenerateVirtualService that also generates a route for every
\* configured developer namespace.
GenerateVirtualService_WithRoutes(n, u) ==
    [exists |-> TRUE, managed |-> TRUE,
     http |-> <<DevRoute(n, "dev1"), DevRoute(n, "dev2"), DefaultRoute(n)>>,
     rv |-> 0, owner |-> u,
     name |-> VSName(n), ns |-> DefaultNamespace, hosts |-> {n}]

\* The object GenerateVirtualService builds (rv is assigned by the store).
GenerateVirtualService(n, u) ==
    [exists |-> TRUE, managed |-> TRUE, http |-> <<DefaultRoute(n)>>,
     rv |-> 0, owner |-> u,
     name |-> VSName(n), ns |-> DefaultNamespace, hosts |-> {n}]

\* Variant of FindRoute that never finds the route.
FindRoute_None(http, ns) == 0

\* Index of the first route whose x-developer match equals ns, 0 if none.
FindRoute(http, ns) ==
    IF \E i \in 1..Len(http) : http[i].hdr # "" /\ http[i].hdr = ns
    THEN CHOOSE i \in 1..Len(http) :
            /\ http[i].hdr # "" /\ http[i].hdr = ns
            /\ \A j \in 1..(i-1) : ~(http[j].hdr # "" /\ http[j].hdr = ns)
    ELSE 0

\* Variant of UpdateVirtualServiceRoutes that replaces the route of ns when
\* there is one and otherwise adds nothing.
UpdateVirtualServiceRoutes_NoInsert(http, n, ns) ==
    LET i == FindRoute(http, ns) IN
    IF i # 0 THEN [http EXCEPT ![i] = DevRoute(n, ns)] ELSE http

\* Variant that inserts before the last route without looking for the route
\* of ns first.
UpdateVirtualServiceRoutes_AlwaysInsert(http, n, ns) ==
    IF Len(http) > 0
    THEN SubSeq(http, 1, Len(http) - 1) \o <<DevRoute(n, ns), http[Len(http)]>>
    ELSE <<DevRoute(n, ns)>>

\* Variant that adds a new route after the last route.
UpdateVirtualServiceRoutes_Append(http, n, ns) ==
    LET i == FindRoute(http, ns) IN
    IF i # 0 THEN [http EXCEPT ![i] = DevRoute(n, ns)]
    ELSE http \o <<DevRoute(n, ns)>>

UpdateVirtualServiceRoutes(http, n, ns) ==
    LET i == FindRoute(http, ns) IN
    IF i # 0 THEN [http EXCEPT ![i] = DevRoute(n, ns)]
    ELSE IF Len(http) > 0
         THEN SubSeq(http, 1, Len(http) - 1) \o <<DevRoute(n, ns), http[Len(http)]>>
         ELSE <<DevRoute(n, ns)>>

\* Variant of RemoveNamespaceRoutes that drops only the first route of ns.
RemoveNamespaceRoutes_First(http, ns) ==
    LET i == FindRoute(http, ns) IN
    IF i = 0 THEN http ELSE SubSeq(http, 1, i - 1) \o SubSeq(http, i + 1, Len(http))

\* Variant of RemoveNamespaceRoutes that keeps every route.
RemoveNamespaceRoutes_Keep(http, ns) == http

\* The update function of handleServiceDeletion: keep every route whose first
\* match is not an exact x-developer match on ns.
RemoveNamespaceRoutes(http, ns) ==
    LET Keep(r) == ~(r.hdr # "" /\ r.hdr = ns) IN SelectSeq(http, Keep)

\* Variant of AddRoutes that adds the route of the first namespace only.
AddRoutes_First(http, n, nss) ==
    IF nss = <<>> THEN http ELSE UpdateVirtualServiceRoutes(http, n, Head(nss))

RECURSIVE AddRoutes(_, _, _)
\* The update function of addExistingDeveloperRoutes.
AddRoutes(http, n, nss) ==
    IF nss = <<>> THEN http
    ELSE AddRoutes(UpdateVirtualServiceRoutes(http, n, Head(nss)), n, Tail(nss))

\* The update function a handler hands to retryVirtualServiceUpdate.
ApplyUpdate(op, nss, n, http) ==
    CASE op = "reset"  -> <<DefaultRoute(n)>>
      [] op = "add"    -> AddRoutes(http, n, nss)
      [] op = "remove" -> RemoveNamespaceRoutes(http, nss[1])

----------------------------------------------------------------------------
(* Handler frames *)

\* existing holds the rule list of existingVS, the VirtualService that
\* handleDefaultNamespaceService read before it wrote anything.
Idle == [pc |-> "idle", name |-> "", ns |-> "", kind |-> "", uid |-> 0,
         existing |-> <<>>,
         idx |-> 0, toAdd |-> <<>>, items |-> <<>>, src |-> "", latest |-> NoVS,
         op |-> "", nss |-> <<>>, att |-> 0, found |-> FALSE, ret |-> "", res |-> "",
         lastErr |-> "", conf |-> 0, cancelled |-> FALSE]

\* The next index after i of a developer namespace other than the default
\* namespace, 0 when the loop over config.DeveloperNamespaces is over.
NextDev(i) ==
    LET S == {j \in (i+1)..Len(DeveloperNamespaces) :
                DeveloperNamespaces[j] # DefaultNamespace}
    IN IF S = {} THEN 0 ELSE CHOOSE j \in S : \A k \in S : j <= k

\* The handler returns r ("ok" or the error): its locals die; the result, the
\* attempts of its last retryVirtualServiceUpdate, the last answer of the
\* store to it, the conflicts it met, whether it replaced an existing route
\* and whether the context was cancelled stay for inspection.
Return(f, r) ==
    [Idle EXCEPT !.pc = "done", !.name = f.name, !.ns = f.ns, !.kind = f.kind,
                 !.att = f.att, !.found = f.found, !.res = r,
                 !.existing = f.existing,
                 !.lastErr = f.lastErr, !.conf = f.conf, !.cancelled = f.cancelled]

\* Entry of retryVirtualServiceUpdate.
Retry(f, op, nss, ret) ==
    [f EXCEPT !.pc = "rtGet", !.op = op, !.nss = nss, !.ret = ret, !.att = 1,
              !.found = FALSE, !.lastErr = "", !.conf = 0]

----------------------------------------------------------------------------
(* Initial state: an empty store and an idle controller *)

Init ==
    /\ svc = [k \in AllKeys |-> NoSvc]
    /\ vs = [n \in Names |-> NoVS]
    /\ rvc = [n \in Names |-> 0]
    /\ uidc = [n \in Names |-> 0]
    /\ pending = {}
    /\ h = [p \in Workers |-> Idle]
    /\ enable = TRUE
    /\ budget = MaxExt
    /\ stable = [p \in Workers |-> FALSE]
    /\ done = [n \in Names |-> NoDone]
    /\ last = NoLast

----------------------------------------------------------------------------
(* The controller: Reconcile and the handlers it dispatches to *)

StoreUnchanged == UNCHANGED <<svc, vs, rvc, uidc, pending>>

Frame(p, f) == h' = [h EXCEPT ![p] = f]

\* The entry of key k in the work queue of instance p.  The variable pending
\* holds the queues of all the instances that run: the entries of instance 1
\* are the bare keys, those of another instance carry its number.
QKey(p, k) == IF p = 1 THEN k ELSE <<k[1], k[2], p>>

\* The watch of every instance that runs sees the event of key k and queues
\* the key.
Enqueue(k) == pending \cup {QKey(p, k) : p \in DOMAIN h}

\* The work queue of instance p hands key k to its worker when it is idle.
Start(p, k) ==
    /\ h[p].pc = "idle"
    /\ QKey(p, k) \in pending
    /\ pending' = pending \ {QKey(p, k)}
    /\ Frame(p, [Idle EXCEPT !.pc = "recGet", !.name = k[1], !.ns = k[2]])
    /\ stable' = [stable EXCEPT ![p] = TRUE]
    /\ last' = IF last.key = k THEN last ELSE NoLast
    /\ UNCHANGED <<svc, vs, rvc, uidc, enable, budget, done>>

\* Variant of EnterCreatePlaceholders without the feature gate.
EnterCreatePlaceholders_Ungated(f) ==
    IF NextDev(0) = 0
    THEN [f EXCEPT !.pc = "dfGetVS"]
    ELSE [f EXCEPT !.pc = "cpGet", !.idx = NextDev(0)]

\* Entry of createPlaceholderServices (feature gate, then the loop).
EnterCreatePlaceholders(f) ==
    IF ~enable \/ NextDev(0) = 0
    THEN [f EXCEPT !.pc = "dfGetVS"]
    ELSE [f EXCEPT !.pc = "cpGet", !.idx = NextDev(0)]

\* Variant of shouldWatch that takes every namespace as watched.
shouldWatch_Always(ns) == TRUE

\* Reconcile: the namespace of the request is one of GetWatchedNamespaces.
shouldWatch(ns) == ns \in WatchedNamespaces

\* Reconcile: the check of the namespace, r.Get of the Service and the
\* dispatch on namespace role, with the first checks of the handler reached.
RecGet(p) ==
    LET f == h[p]
        s == svc[<<f.name, f.ns>>]
    IN
    /\ f.pc = "recGet"
    /\ Frame(p,
         IF ~shouldWatch(f.ns) THEN Return([f EXCEPT !.kind = "ignored"], "ok")
         ELSE IF ~s.exists
         THEN IF f.ns = DefaultNamespace
              THEN [f EXCEPT !.kind = "defDel", !.pc = "delGetVS"]
              ELSE [f EXCEPT !.kind = "devDel", !.pc = "ddGetVS"]
         ELSE IF f.ns = DefaultNamespace
              THEN IF isSystemService(f.name)
                   THEN Return([f EXCEPT !.kind = "defUp"], "ok")
                   ELSE EnterCreatePlaceholders([f EXCEPT !.kind = "defUp", !.uid = s.uid])
              ELSE IF isPlaceholderService(s)
                   THEN Return([f EXCEPT !.kind = "devUp"], "ok")
                   ELSE [f EXCEPT !.kind = "devUp", !.pc = "dvGetDef"])
    /\ StoreUnchanged
    /\ UNCHANGED <<enable, budget, stable, done, last>>

\* Variant of CreatePlaceholder that writes over whatever is at key k.
CreatePlaceholder_Overwrite(k) == [svc EXCEPT ![k] = PlaceholderSvc]

\* r.Create of a placeholder at key k: the store refuses to create over an
\* existing object (AlreadyExists) and leaves it as it is.
CreatePlaceholder(k) ==
    IF svc[k].exists THEN svc ELSE [svc EXCEPT ![k] = PlaceholderSvc]

\* Variant of AfterPlaceholder that leaves the loop after one namespace.
AfterPlaceholder_Stop(f) == [f EXCEPT !.pc = "dfGetVS", !.idx = 0]

\* createPlaceholderServices: after namespace idx, go on with the loop or
\* return to handleDefaultNamespaceService.
AfterPlaceholder(f) ==
    IF NextDev(f.idx) = 0
    THEN [f EXCEPT !.pc = "dfGetVS", !.idx = 0]
    ELSE [f EXCEPT !.pc = "cpGet", !.idx = NextDev(f.idx)]

\* createPlaceholderServices: r.Get of the Service in the developer namespace.
CpGet(p) ==
    LET f == h[p]
        t == DeveloperNamespaces[f.idx]
    IN
    /\ f.pc = "cpGet"
    /\ Frame(p, IF svc[<<f.name, t>>].exists THEN AfterPlaceholder(f)
                ELSE [f EXCEPT !.pc = "cpCreate"])
    /\ StoreUnchanged
    /\ UNCHANGED <<enable, budget, stable, done, last>>

\* createPlaceholderServices: r.Create of the placeholder.
CpCreate(p) ==
    LET f == h[p]
        k == <<f.name, DeveloperNamespaces[f.idx]>>
    IN
    /\ f.pc = "cpCreate"
    /\ IF svc[k].exists
       THEN /\ Frame(p, Return(f, "AlreadyExists"))
            /\ svc' = CreatePlaceholder(k)
            /\ UNCHANGED pending
       ELSE /\ svc' = CreatePlaceholder(k)
            /\ pending' = Enqueue(k)
            /\ Frame(p, AfterPlaceholder(f))
    /\ UNCHANGED <<vs, rvc, uidc, enable, budget, stable, done, last>>

\* Entry of addExistingDeveloperRoutes.
EnterAddExisting(f) ==
    IF NextDev(0) = 0 THEN Return(f, "ok")
    ELSE [f EXCEPT !.pc = "aeGet", !.idx = NextDev(0), !.toAdd = <<>>]

\* handleDefaultNamespaceService: r.Get of the VirtualService.
DfGetVS(p) ==
    LET f == h[p]
        v == vs[f.name]
    IN
    /\ f.pc = "dfGetVS"
    /\ Frame(p, IF ~v.exists THEN [f EXCEPT !.pc = "dfCreate"]
                ELSE IF IsManagedByOperator(v)
                     THEN Retry([f EXCEPT !.existing = v.http], "reset", <<>>, "ae")
                ELSE Return(f, "ok"))
    /\ StoreUnchanged
    /\ UNCHANGED <<enable, budget, stable, done, last>>

\* handleDefaultNamespaceService: r.Create of the generated VirtualService.
DfCreate(p) ==
    LET f == h[p] IN
    /\ f.pc = "dfCreate"
    /\ IF vs[f.name].exists
       THEN /\ Frame(p, Return(f, "AlreadyExists"))
            /\ UNCHANGED <<vs, rvc>>
       ELSE /\ rvc' = [rvc EXCEPT ![f.name] = @ + 1]
            /\ vs' = [vs EXCEPT ![f.name] =
                        [GenerateVirtualService(f.name, f.uid) EXCEPT !.rv = rvc'[f.name]]]
            /\ Frame(p, EnterAddExisting(f))
    /\ UNCHANGED <<svc, uidc, pending, enable, budget, stable, done, last>>

\* addExistingDeveloperRoutes: r.Get of the Service in one developer
\* namespace; after the last one, the update if there is a route to add.
AeGet(p) ==
    LET f == h[p]
        t == DeveloperNamespaces[f.idx]
        s == svc[<<f.name, t>>]
        add == IF s.exists /\ ~isPlaceholderService(s) THEN Append(f.toAdd, t) ELSE f.toAdd
    IN
    /\ f.pc = "aeGet"
    /\ Frame(p, IF NextDev(f.idx) # 0
                THEN [f EXCEPT !.idx = NextDev(f.idx), !.toAdd = add]
                ELSE IF Len(add) > 0
                     THEN Retry([f EXCEPT !.toAdd = add], "add", add, "done")
                     ELSE Return([f EXCEPT !.toAdd = add], "ok"))
    /\ StoreUnchanged
    /\ UNCHANGED <<enable, budget, stable, done, last>>

\* Variant of NextAttempt that allows one call more than Steps.
NextAttempt_Six(f, e) ==
    IF f.att >= Steps + 1 THEN Return([f EXCEPT !.lastErr = e], "ErrWaitTimeout")
    ELSE [f EXCEPT !.pc = "rtGet", !.att = @ + 1, !.lastErr = e, !.latest = NoVS]

\* retryVirtualServiceUpdate: the condition returned (false, nil) with store
\* answer e; wait.ExponentialBackoff calls it again unless the Steps calls are
\* used up, and then returns ErrWaitTimeout.
NextAttempt(f, e) ==
    IF f.att >= Steps THEN Return([f EXCEPT !.lastErr = e], "ErrWaitTimeout")
    ELSE [f EXCEPT !.pc = "rtGet", !.att = @ + 1, !.lastErr = e, !.latest = NoVS]

\* Variant of GetNotFound in which NotFound leads to another attempt.
GetNotFound_Retry(f) == NextAttempt(f, "NotFound")

\* retryVirtualServiceUpdate: r.Get answered NotFound; the condition returns
\* the error and wait.ExponentialBackoff returns it.
GetNotFound(f) == Return([f EXCEPT !.lastErr = "NotFound"], "NotFound")

\* retryVirtualServiceUpdate: r.Get of the latest version.
RtGet(p) ==
    LET f == h[p]
        v == vs[f.name]
    IN
    /\ f.pc = "rtGet"
    /\ Frame(p, IF ~v.exists THEN GetNotFound(f)
                ELSE [f EXCEPT !.pc = "rtUpdate", !.latest = v])
    /\ StoreUnchanged
    /\ UNCHANGED <<enable, budget, stable, done, last>>

\* retryVirtualServiceUpdate: r.Get fails with an error other than NotFound
\* (the store is unavailable, or the context is cancelled and the read is not
\* served from the cache); the condition returns (false, nil).
RtGetError(p) ==
    LET f == h[p] IN
    /\ f.pc = "rtGet"
    /\ f.cancelled \/ budget > 0
    /\ budget' = IF f.cancelled THEN budget ELSE budget - 1
    /\ Frame(p, NextAttempt(f, IF f.cancelled THEN "Canceled" ELSE "GetError"))
    /\ StoreUnchanged
    /\ UNCHANGED <<enable, stable, done, last>>

\* Where a handler goes on after retryVirtualServiceUpdate returned nil.
AfterRetry(f) ==
    LET g == [f EXCEPT !.latest = NoVS, !.op = "", !.nss = <<>>, !.ret = "",
                       !.found = f.op = "add" /\ Len(f.nss) = 1
                                 /\ FindRoute(f.latest.http, f.nss[1]) # 0]
    IN
    CASE f.ret = "ae"       -> EnterAddExisting(g)
      [] f.ret = "ddGetDef" -> [g EXCEPT !.pc = "ddGetDef"]
      [] OTHER              -> Return(g, "ok")

\* Variant of IsConflict in which the store accepts every write.
IsConflict_Never(stored, sent) == FALSE

\* r.Update answers with a conflict when the resourceVersion sent is not the
\* stored one (errors.IsConflict).
IsConflict(stored, sent) == stored.rv # sent.rv

\* retryVirtualServiceUpdate: the update function applied to the latest
\* version, and r.Update of the result.  With a cancelled context the request
\* fails and nothing is written.
RtUpdate(p) ==
    LET f == h[p]
        v == vs[f.name]
        new == [f.latest EXCEPT !.http = ApplyUpdate(f.op, f.nss, f.name, f.latest.http),
                                !.hosts = IF f.op = "reset" THEN {f.name} ELSE @]
    IN
    /\ f.pc = "rtUpdate"
    /\ IF f.cancelled
       THEN /\ Frame(p, Return([f EXCEPT !.lastErr = "Canceled"], "Canceled"))
            /\ UNCHANGED <<vs, rvc>>
       ELSE IF ~v.exists
       THEN /\ Frame(p, Return([f EXCEPT !.lastErr = "NotFound"], "NotFound"))
            /\ UNCHANGED <<vs, rvc>>
       ELSE IF IsConflict(v, new)
       THEN /\ Frame(p, NextAttempt([f EXCEPT !.conf = @ + 1], "Conflict"))
            /\ UNCHANGED <<vs, rvc>>
       ELSE /\ rvc' = [rvc EXCEPT ![f.name] = @ + 1]
            /\ vs' = [vs EXCEPT ![f.name] = [new EXCEPT !.rv = rvc'[f.name]]]
            /\ Frame(p, AfterRetry(f))
    /\ UNCHANGED <<svc, uidc, pending, enable, budget, stable, done, last>>

\* retryVirtualServiceUpdate: r.Update fails with an error that is neither a
\* conflict nor NotFound; the condition returns the error.
RtUpdateError(p) ==
    LET f == h[p] IN
    /\ f.pc = "rtUpdate"
    /\ ~f.cancelled
    /\ budget > 0
    /\ budget' = budget - 1
    /\ Frame(p, Return([f EXCEPT !.lastErr = "UpdateError"], "UpdateError"))
    /\ StoreUnchanged
    /\ UNCHANGED <<enable, stable, done, last>>

\* The context of the Reconcile call is cancelled while the handler is in
\* retryVirtualServiceUpdate (in an attempt or between two attempts).
Cancel(p) ==
    LET f == h[p] IN
    /\ f.pc \in {"rtGet", "rtUpdate"}
    /\ ~f.cancelled
    /\ budget > 0
    /\ budget' = budget - 1
    /\ Frame(p, [f EXCEPT !.cancelled = TRUE])
    /\ StoreUnchanged
    /\ UNCHANGED <<enable, stable, done, last>>

\* Variant of NextItem that finds no further item.
NextItem_None(items, i) == 0

\* The next index after i of a listed Service that
\* ensurePlaceholderServicesForNamespace does not skip, 0 when the loop is over.
NextItem(items, i) ==
    LET S == {j \in (i+1)..Len(items) : ~isSystemService(items[j])}
    IN IF S = {} THEN 0 ELSE CHOOSE j \in S : \A k \in S : j <= k

\* ensurePlaceholderServicesForNamespace: the loop over the listed Services.
AfterItem(f) ==
    IF NextItem(f.items, f.idx) = 0 THEN Return(f, "ok")
    ELSE [f EXCEPT !.pc = "csGet", !.idx = NextItem(f.items, f.idx),
                   !.src = f.items[NextItem(f.items, f.idx)]]

\* The Services of the default namespace, as r.List returns them.
ListDefault ==
    LET Has(n) == svc[<<n, DefaultNamespace>>].exists IN SelectSeq(NamesSeq, Has)

\* handleDeveloperNamespaceService: r.Get of the Service of the same name in
\* the default namespace.
DvGetDef(p) ==
    LET f == h[p] IN
    /\ f.pc = "dvGetDef"
    /\ Frame(p, IF ~svc[<<f.name, DefaultNamespace>>].exists
                THEN IF enable THEN [f EXCEPT !.pc = "ensList"] ELSE Return(f, "ok")
                ELSE [f EXCEPT !.pc = "dvGetVS"])
    /\ StoreUnchanged
    /\ UNCHANGED <<enable, budget, stable, done, last>>

\* ensurePlaceholderServicesForNamespace: r.List of the default namespace.
EnsList(p) ==
    LET f == h[p] IN
    /\ f.pc = "ensList"
    /\ Frame(p, AfterItem([f EXCEPT !.items = ListDefault, !.idx = 0, !.ret = "ens"]))
    /\ StoreUnchanged
    /\ UNCHANGED <<enable, budget, stable, done, last>>

\* Where the caller of createSinglePlaceholderService goes on.
AfterSingle(f) == IF f.ret = "ens" THEN AfterItem(f) ELSE Return(f, "ok")

\* createSinglePlaceholderService: r.Get of the Service in the target namespace.
CsGet(p) ==
    LET f == h[p] IN
    /\ f.pc = "csGet"
    /\ Frame(p, IF svc[<<f.src, f.ns>>].exists THEN AfterSingle(f)
                ELSE [f EXCEPT !.pc = "csCreate"])
    /\ StoreUnchanged
    /\ UNCHANGED <<enable, budget, stable, done, last>>

\* createSinglePlaceholderService: r.Create of the placeholder.
CsCreate(p) ==
    LET f == h[p]
        k == <<f.src, f.ns>>
    IN
    /\ f.pc = "csCreate"
    /\ IF svc[k].exists
       THEN /\ Frame(p, Return(f, "AlreadyExists"))
            /\ svc' = CreatePlaceholder(k)
            /\ UNCHANGED pending
       ELSE /\ svc' = CreatePlaceholder(k)
            /\ pending' = Enqueue(k)
            /\ Frame(p, AfterSingle(f))
    /\ UNCHANGED <<vs, rvc, uidc, enable, budget, stable, done, last>>

\* handleDeveloperNamespaceService: r.Get of the VirtualService.
DvGetVS(p) ==
    LET f == h[p]
        v == vs[f.name]
    IN
    /\ f.pc = "dvGetVS"
    /\ Frame(p, IF ~v.exists THEN Return(f, "ok")
                ELSE IF IsManagedByOperator(v) THEN Retry(f, "add", <<f.ns>>, "done")
                ELSE Return(f, "ok"))
    /\ StoreUnchanged
    /\ UNCHANGED <<enable, budget, stable, done, last>>

\* Entry of deletePlaceholderServices (feature gate, then the loop).
EnterDeletePlaceholders(f) ==
    IF ~enable \/ NextDev(0) = 0 THEN Return(f, "ok")
    ELSE [f EXCEPT !.pc = "dpGet", !.idx = NextDev(0)]

\* deletePlaceholderServices: after namespace idx.
AfterDeletePlaceholder(f) ==
    IF NextDev(f.idx) = 0 THEN Return(f, "ok")
    ELSE [f EXCEPT !.pc = "dpGet", !.idx = NextDev(f.idx)]

\* handleServiceDeletion, default namespace: r.Get of the VirtualService.
DelGetVS(p) ==
    LET f == h[p]
        v == vs[f.name]
    IN
    /\ f.pc = "delGetVS"
    /\ Frame(p, IF ~v.exists THEN Return(f, "ok")
                ELSE IF IsManagedByOperator(v) THEN [f EXCEPT !.pc = "delDeleteVS"]
                ELSE EnterDeletePlaceholders(f))
    /\ StoreUnchanged
    /\ UNCHANGED <<enable, budget, stable, done, last>>

\* Variant of DelDeleteVS that deletes the VirtualService of every workload.
DelDeleteVS_All(p) ==
    LET f == h[p] IN
    /\ f.pc = "delDeleteVS"
    /\ vs' = [n \in Names |-> NoVS]
    /\ Frame(p, EnterDeletePlaceholders(f))
    /\ UNCHANGED <<svc, rvc, uidc, pending, enable, budget, stable, done, last>>

\* handleServiceDeletion, default namespace: r.Delete of the VirtualService.
DelDeleteVS(p) ==
    LET f == h[p] IN
    /\ f.pc = "delDeleteVS"
    /\ IF ~vs[f.name].exists
       THEN /\ Frame(p, Return(f, "NotFound"))
            /\ UNCHANGED vs
       ELSE /\ vs' = [vs EXCEPT ![f.name] = NoVS]
            /\ Frame(p, EnterDeletePlaceholders(f))
    /\ UNCHANGED <<svc, rvc, uidc, pending, enable, budget, stable, done, last>>

\* deletePlaceholderServices: r.Get of the Service in one developer namespace.
DpGet(p) ==
    LET f == h[p]
        s == svc[<<f.name, DeveloperNamespaces[f.idx]>>]
    IN
    /\ f.pc = "dpGet"
    /\ Frame(p, IF ~s.exists THEN AfterDeletePlaceholder(f)
                ELSE IF isPlaceholderService(s) THEN [f EXCEPT !.pc = "dpDelete"]
                ELSE AfterDeletePlaceholder(f))
    /\ StoreUnchanged
    /\ UNCHANGED <<enable, budget, stable, done, last>>

\* deletePlaceholderServices: r.Delete of the Service that was read.
DpDelete(p) ==
    LET f == h[p]
        k == <<f.name, DeveloperNamespaces[f.idx]>>
    IN
    /\ f.pc = "dpDelete"
    /\ IF ~svc[k].exists
       THEN /\ Frame(p, Return(f, "NotFound"))
            /\ UNCHANGED <<svc, pending>>
       ELSE /\ svc' = [svc EXCEPT ![k] = NoSvc]
            /\ pending' = Enqueue(k)
            /\ Frame(p, AfterDeletePlaceholder(f))
    /\ UNCHANGED <<vs, rvc, uidc, enable, budget, stable, done, last>>

\* handleServiceDeletion, developer namespace: r.Get of the VirtualService.
DdGetVS(p) ==
    LET f == h[p]
        v == vs[f.name]
    IN
    /\ f.pc = "ddGetVS"
    /\ Frame(p, IF ~v.exists THEN [f EXCEPT !.pc = "ddGetDef"]
                ELSE IF IsManagedByOperator(v) THEN Retry(f, "remove", <<f.ns>>, "ddGetDef")
                ELSE [f EXCEPT !.pc = "ddGetDef"])
    /\ StoreUnchanged
    /\ UNCHANGED <<enable, budget, stable, done, last>>

\* handleServiceDeletion, developer namespace: r.Get of the Service in the
\* default namespace, and the entry of createSinglePlaceholderService.
DdGetDef(p) ==
    LET f == h[p] IN
    /\ f.pc = "ddGetDef"
    /\ Frame(p, IF svc[<<f.name, DefaultNamespace>>].exists /\ enable
                   /\ ~isSystemService(f.name)
                THEN [f EXCEPT !.pc = "csGet", !.src = f.name, !.ret = "done"]
                ELSE Return(f, "ok"))
    /\ StoreUnchanged
    /\ UNCHANGED <<enable, budget, stable, done, last>>

\* handleServiceDeletion, developer namespace: r.Get of the Service in the
\* default namespace fails with an error other than NotFound.
DdGetDefError(p) ==
    /\ h[p].pc = "ddGetDef"
    /\ budget > 0
    /\ budget' = budget - 1
    /\ Frame(p, Return(h[p], "GetError"))
    /\ StoreUnchanged
    /\ UNCHANGED <<enable, stable, done, last>>

\* Reconcile returns to the work queue, which queues the key again after an
\* error.  Ghost: an upsert handled over an unchanged population is recorded.
Finish(p) ==
    LET f == h[p]
        d == done[f.name]
    IN
    /\ f.pc = "done"
    /\ Frame(p, Idle)
    /\ pending' = IF f.res # "ok" THEN pending \cup {QKey(p, <<f.name, f.ns>>)} ELSE pending
    /\ stable' = [stable EXCEPT ![p] = FALSE]
    /\ done' = IF f.res = "ok" /\ stable[p]
               THEN CASE f.kind = "defUp" -> [done EXCEPT ![f.name] = [def |-> TRUE, dev |-> {}]]
                      [] f.kind = "devUp" /\ d.def -> [done EXCEPT ![f.name].dev = @ \cup {f.ns}]
                      [] OTHER -> done
               ELSE done
    /\ last' = IF f.res = "ok" /\ stable[p] /\ f.kind \in {"defUp", "devUp"}
               THEN [valid |-> TRUE, key |-> <<f.name, f.ns>>,
                     vsx |-> vs[f.name].exists, http |-> vs[f.name].http]
               ELSE NoLast
    /\ UNCHANGED <<svc, vs, rvc, uidc, enable, budget>>

Step(p) ==
    \/ \E k \in AllKeys : Start(p, k)
    \/ RecGet(p)
    \/ CpGet(p)
    \/ CpCreate(p)
    \/ DfGetVS(p)
    \/ DfCreate(p)
    \/ AeGet(p)
    \/ RtGet(p)
    \/ RtUpdate(p)
    \/ DvGetDef(p)
    \/ EnsList(p)
    \/ CsGet(p)
    \/ CsCreate(p)
    \/ DvGetVS(p)
    \/ DelGetVS(p)
    \/ DelDeleteVS(p)
    \/ DpGet(p)
    \/ DpDelete(p)
    \/ DdGetVS(p)
    \/ DdGetDef(p)
    \/ Finish(p)

----------------------------------------------------------------------------
(* The environment *)

\* Ghosts after an external change to workload n: the handlers of n in
\* progress no longer run over an unchanged population, and no replay follows.
Touched(n) ==
    /\ stable' = [p \in DOMAIN stable |-> stable[p] /\ h[p].name # n]
    /\ last' = NoLast

\* SetupWithManager: the event filter lets through the events of objects in
\* the watched namespaces.
namespacePredicate(ns) == ns \in WatchedNamespaces

\* The external actor creates a REAL Service, or deploys one over a
\* placeholder; the watch queues its key when the filter lets the event
\* through.
ExtCreate(n, ns) ==
    /\ budget > 0
    /\ ~svc[<<n, ns>>].exists \/ isPlaceholderService(svc[<<n, ns>>])
    /\ uidc' = IF ns = DefaultNamespace THEN [uidc EXCEPT ![n] = @ + 1] ELSE uidc
    /\ svc' = [svc EXCEPT ![<<n, ns>>] =
                 RealSvc(IF ns = DefaultNamespace THEN uidc'[n] ELSE 0)]
    /\ pending' = IF namespacePredicate(ns) THEN Enqueue(<<n, ns>>) ELSE pending
    /\ budget' = budget - 1
    /\ done' = IF ns = DefaultNamespace THEN [done EXCEPT ![n] = NoDone]
               ELSE [done EXCEPT ![n].dev = @ \ {ns}]
    /\ Touched(n)
    /\ UNCHANGED <<vs, rvc, h, enable>>

\* The external actor deletes a REAL Service; the watch queues its key when
\* the filter lets the event through.
ExtDelete(n, ns) ==
    /\ budget > 0
    /\ svc[<<n, ns>>].exists
    /\ ~isPlaceholderService(svc[<<n, ns>>])
    /\ svc' = [svc EXCEPT ![<<n, ns>>] = NoSvc]
    /\ pending' = IF namespacePredicate(ns) THEN Enqueue(<<n, ns>>) ELSE pending
    /\ budget' = budget - 1
    /\ done' = [done EXCEPT ![n] = NoDone]
    /\ Touched(n)
    /\ UNCHANGED <<vs, rvc, uidc, h, enable>>

\* The external actor writes a VirtualService of its own under the name the
\* operator uses: no managed-by label, no owner, the default route only.
ExtCreateVS(n) ==
    /\ budget > 0
    /\ ~vs[n].exists
    /\ rvc' = [rvc EXCEPT ![n] = @ + 1]
    /\ vs' = [vs EXCEPT ![n] = [exists |-> TRUE, managed |-> FALSE,
                                http |-> <<DefaultRoute(n)>>, rv |-> rvc'[n], owner |-> 0,
                                name |-> VSName(n), ns |-> DefaultNamespace,
                                hosts |-> {n}]]
    /\ budget' = budget - 1
    /\ done' = [done EXCEPT ![n] = NoDone]
    /\ Touched(n)
    /\ UNCHANGED <<svc, uidc, pending, h, enable>>

\* The store's garbage collector deletes a VirtualService whose owner (the
\* Service with the UID of its owner reference) no longer exists.
GC(n) ==
    /\ vs[n].exists
    /\ vs[n].owner # 0
    /\ ~(svc[<<n, DefaultNamespace>>].exists /\ svc[<<n, DefaultNamespace>>].uid = vs[n].owner)
    /\ vs' = [vs EXCEPT ![n] = NoVS]
    /\ done' = [done EXCEPT ![n] = NoDone]
    /\ Touched(n)
    /\ UNCHANGED <<svc, rvc, uidc, pending, h, enable, budget>>

\* At-least-once delivery: the key of an existing Service is delivered again.
Redeliver(k) ==
    /\ budget > 0
    /\ k \notin pending
    /\ svc[k].exists
    /\ pending' = pending \cup {k}
    /\ budget' = budget - 1
    /\ UNCHANGED <<svc, vs, rvc, uidc, h, enable, stable, done, last>>

Env ==
    \/ \E k \in ExtKeys : ExtCreate(k[1], k[2])
    \/ \E k \in ExtKeys : ExtDelete(k[1], k[2])
    \/ \E k \in ExtKeys : ExtCreateVS(k[1])
    \/ \E n \in Names : GC(n)
    \/ \E k \in ExtKeys : Redeliver(k)

\* Another client of the store writes the VirtualService between a read and
\* the write of a handler (its resourceVersion changes, its routes do not).
ExtTouchVS(n) ==
    /\ vs[n].exists
    /\ rvc[n] < MaxRv
    /\ \E p \in Workers : /\ h[p].pc = "rtUpdate" /\ h[p].name = n
                          /\ h[p].latest.rv = vs[n].rv
    /\ rvc' = [rvc EXCEPT ![n] = @ + 1]
    /\ vs' = [vs EXCEPT ![n].rv = rvc'[n]]
    /\ UNCHANGED <<svc, uidc, pending, h, enable, budget, stable, done, last>>

\* The environment of web alone.
EnvWeb ==
    \/ \E k \in WebKeys : ExtCreate(k[1], k[2])
    \/ \E k \in WebKeys : ExtDelete(k[1], k[2])
    \/ \E k \in WebKeys : ExtCreateVS(k[1])
    \/ \E n \in Names : GC(n)
    \/ \E k \in WebKeys : Redeliver(k)

----------------------------------------------------------------------------
(* Specifications *)

\* One worker: events are handled one at a time.
Next == Step(1) \/ Env

Spec == Init /\ [][Next]_vars

\* Two instances of the operator on one store, and an external actor that
\* creates web in the developer namespaces and deletes it there.  Every event
\* reaches the queue of each instance; each instance handles its keys one at a
\* time, and the two handle theirs side by side.  At the start web is REAL in
\* the default namespace with its managed VirtualService and its
\* placeholders, and an update of that Service has put its key in both
\* queues.
InitReplicas ==
    /\ svc = [k \in AllKeys |->
                CASE k = <<"web", DefaultNamespace>> -> RealSvc(1)
                  [] k \in {<<"web", "dev1">>, <<"web", "dev2">>} -> PlaceholderSvc
                  [] OTHER -> NoSvc]
    /\ vs = [n \in Names |->
               IF n = "web" THEN [GenerateVirtualService("web", 1) EXCEPT !.rv = 1]
               ELSE NoVS]
    /\ rvc = [n \in Names |-> IF n = "web" THEN 1 ELSE 0]
    /\ uidc = [n \in Names |-> IF n = "web" THEN 1 ELSE 0]
    /\ pending = {QKey(p, <<"web", DefaultNamespace>>) : p \in Replicas}
    /\ h = [p \in Replicas |-> Idle]
    /\ enable = TRUE
    /\ budget = MaxExtReplicas
    /\ stable = [p \in Replicas |-> FALSE]
    /\ done = [n \in Names |-> NoDone]
    /\ last = NoLast

NextReplicas ==
    \/ \E p \in Replicas : \E k \in Keys : Start(p, k)
    \/ \E p \in Replicas : RecGet(p)
    \/ \E p \in Replicas : CpGet(p)
    \/ \E p \in Replicas : CpCreate(p)
    \/ \E p \in Replicas : DfGetVS(p)
    \/ \E p \in Replicas : AeGet(p)
    \/ \E p \in Replicas : RtGet(p)
    \/ \E p \in Replicas : RtUpdate(p)
    \/ \E p \in Replicas : DvGetDef(p)
    \/ \E p \in Replicas : CsGet(p)
    \/ \E p \in Replicas : CsCreate(p)
    \/ \E p \in Replicas : DvGetVS(p)
    \/ \E p \in Replicas : DdGetVS(p)
    \/ \E p \in Replicas : DdGetDef(p)
    \/ \E p \in Replicas : Finish(p)
    \/ \E ns \in DevNs : ExtCreate("web", ns)
    \/ \E ns \in DevNs : ExtDelete("web", ns)

SpecReplicas == InitReplicas /\ [][NextReplicas]_vars

\* The ConfigMap is edited: the placeholder feature is switched on or off.
\* A handler works on the configuration it read when it began, so the switch
\* is taken between two handlers.
ExtConfig ==
    /\ budget > 0
    /\ \A p \in Workers : h[p].pc = "idle"
    /\ enable' = ~enable
    /\ budget' = budget - 1
    /\ last' = NoLast
    /\ UNCHANGED <<svc, vs, rvc, uidc, pending, h, stable, done>>

\* One worker handling one key at a time to the end: the cluster changes only
\* between two handlers.
NextSeq ==
    \/ Step(1)
    \/ h[1].pc = "idle" /\ Env

SpecSeq == Init /\ [][NextSeq]_vars

\* One worker handling one key at a time, the cluster and the configuration
\* changing between two handlers.
NextCfg ==
    \/ NextSeq
    \/ ExtConfig

SpecCfg == Init /\ [][NextCfg]_vars

\* One worker with the placeholder feature switched off, over a cluster that
\* changes and whose r.Get of a default-namespace Service may fail.
InitVariant ==
    /\ svc = [k \in AllKeys |-> NoSvc]
    /\ vs = [n \in Names |-> NoVS]
    /\ rvc = [n \in Names |-> 0]
    /\ uidc = [n \in Names |-> 0]
    /\ pending = {}
    /\ h = [p \in Workers |-> Idle]
    /\ enable = FALSE
    /\ budget = MaxExtVariant
    /\ stable = [p \in Workers |-> FALSE]
    /\ done = [n \in Names |-> NoDone]
    /\ last = NoLast

NextVariant ==
    \/ \E k \in Keys : Start(1, k)
    \/ RecGet(1)
    \/ DfGetVS(1)
    \/ DfCreate(1)
    \/ AeGet(1)
    \/ RtGet(1)
    \/ RtUpdate(1)
    \/ DvGetDef(1)
    \/ DvGetVS(1)
    \/ DelGetVS(1)
    \/ DelDeleteVS(1)
    \/ DdGetVS(1)
    \/ DdGetDef(1)
    \/ DdGetDefError(1)
    \/ Finish(1)
    \/ Env

SpecVariant == InitVariant /\ [][NextVariant]_vars

\* An external actor creates and deletes the Services of two workloads; the
\* worker handles their keys in any order.
TwoKeys ==
    {<<"web", "default">>, <<"web", "dev1">>, <<"aux", "default">>, <<"aux", "dev1">>}

InitTwo ==
    /\ svc = [k \in AllKeys |-> NoSvc]
    /\ vs = [n \in Names |-> NoVS]
    /\ rvc = [n \in Names |-> 0]
    /\ uidc = [n \in Names |-> 0]
    /\ pending = {}
    /\ h = [p \in Workers |-> Idle]
    /\ enable = TRUE
    /\ budget = MaxExtTwo
    /\ stable = [p \in Workers |-> FALSE]
    /\ done = [n \in Names |-> NoDone]
    /\ last = NoLast

NextTwo ==
    \/ Step(1)
    \/ \E k \in TwoKeys : ExtCreate(k[1], k[2])
    \/ \E k \in TwoKeys : ExtDelete(k[1], k[2])
    \/ \E n \in Names : GC(n)

SpecTwo == InitTwo /\ [][NextTwo]_vars

\* An external actor creates and deletes the Services of web in the default
\* namespace, in a developer namespace and in a namespace that is not
\* watched.  The filter and Reconcile read the ConfigMap each time they run:
\* at the start the key of web in that namespace is in the queue, put there
\* when the ConfigMap still named the namespace, which it no longer does.
WatchKeys == {<<"web", DefaultNamespace>>, <<"web", "dev1">>, <<"web", OtherNamespace>>}

InitWatch ==
    /\ \E s \in {NoSvc, RealSvc(0)} :
         svc = [k \in AllKeys |-> IF k = <<"web", OtherNamespace>> THEN s ELSE NoSvc]
    /\ vs = [n \in Names |-> NoVS]
    /\ rvc = [n \in Names |-> 0]
    /\ uidc = [n \in Names |-> 0]
    /\ pending = {<<"web", OtherNamespace>>}
    /\ h = [p \in Workers |-> Idle]
    /\ enable = TRUE
    /\ budget = MaxExt
    /\ stable = [p \in Workers |-> FALSE]
    /\ done = [n \in Names |-> NoDone]
    /\ last = NoLast

NextWatch ==
    \/ Step(1)
    \/ \E k \in WatchKeys : ExtCreate(k[1], k[2])
    \/ \E k \in WatchKeys : ExtDelete(k[1], k[2])
    \/ \E n \in Names : GC(n)

SpecWatch == InitWatch /\ [][NextWatch]_vars

\* web is REAL in the default namespace and in dev1 and has a placeholder in
\* dev2 and its managed VirtualService with the route of dev1, as the handlers
\* of the two upserts leave them; the external actor deletes web from the
\* default namespace and from dev1, in either order and at any point of the
\* handler of the other deletion.
InitRace ==
    /\ svc = [k \in AllKeys |->
                 CASE k = <<"web", DefaultNamespace>> -> RealSvc(1)
                   [] k = <<"web", "dev1">> -> RealSvc(0)
                   [] k = <<"web", "dev2">> -> PlaceholderSvc
                   [] OTHER -> NoSvc]
    /\ vs = [n \in Names |->
                IF n = "web"
                THEN [GenerateVirtualService("web", 1) EXCEPT
                        !.http = <<DevRoute("web", "dev1"), DefaultRoute("web")>>,
                        !.rv = 2]
                ELSE NoVS]
    /\ rvc = [n \in Names |-> IF n = "web" THEN 2 ELSE 0]
    /\ uidc = [n \in Names |-> IF n = "web" THEN 1 ELSE 0]
    /\ pending = {}
    /\ h = [p \in Workers |-> Idle]
    /\ enable = TRUE
    /\ budget = MaxExtRace
    /\ stable = [p \in Workers |-> FALSE]
    /\ done = [n \in Names |-> NoDone]
    /\ last = NoLast

NextRace ==
    \/ \E k \in Keys : Start(1, k)
    \/ RecGet(1)
    \/ RtGet(1)
    \/ RtUpdate(1)
    \/ CsGet(1)
    \/ CsCreate(1)
    \/ DelGetVS(1)
    \/ DelDeleteVS(1)
    \/ DpGet(1)
    \/ DpDelete(1)
    \/ DdGetVS(1)
    \/ DdGetDef(1)
    \/ Finish(1)
    \/ ExtDelete("web", DefaultNamespace)
    \/ ExtDelete("web", "dev1")
    \/ GC("web")

SpecRace == InitRace /\ [][NextRace]_vars

\* The Services another client may have put at a key of a developer
\* namespace: with or without the placeholder annotation, of type
\* ExternalName to a name in the default or in another namespace or of
\* another type, with or without the legacy label.
ServiceInputs ==
    {[exists |-> TRUE, ann |-> a, ext |-> e, lbl |-> l, uid |-> 1] :
        a \in BOOLEAN, e \in {"", "default", "dev1"}, l \in BOOLEAN}

\* One worker handling the upserts of web in both developer namespaces, each
\* holding any of these Services, while web exists in the default namespace
\* with its managed VirtualService.
InitDetect ==
    /\ \E s1, s2 \in ServiceInputs :
         svc = [k \in AllKeys |->
                  CASE k = <<"web", DefaultNamespace>> -> RealSvc(1)
                    [] k = <<"web", "dev1">> -> s1
                    [] k = <<"web", "dev2">> -> s2
                    [] OTHER -> NoSvc]
    /\ vs = [n \in Names |->
               IF n = "web"
               THEN [exists |-> TRUE, managed |-> TRUE,
                     http |-> <<DefaultRoute("web")>>, rv |-> 1, owner |-> 1,
                     name |-> VSName(n), ns |-> DefaultNamespace, hosts |-> {n}]
               ELSE NoVS]
    /\ rvc = [n \in Names |-> IF n = "web" THEN 1 ELSE 0]
    /\ uidc = [n \in Names |-> IF n = "web" THEN 1 ELSE 0]
    /\ pending = {<<"web", "dev1">>, <<"web", "dev2">>}
    /\ h = [p \in Workers |-> Idle]
    /\ enable = TRUE
    /\ budget = 0
    /\ stable = [p \in Workers |-> FALSE]
    /\ done = [n \in Names |-> NoDone]
    /\ last = NoLast

NextDetect ==
    \/ \E k \in Keys : Start(1, k)
    \/ RecGet(1)
    \/ DvGetDef(1)
    \/ DvGetVS(1)
    \/ RtGet(1)
    \/ RtUpdate(1)
    \/ Finish(1)

SpecDetect == InitDetect /\ [][NextDetect]_vars

\* The rule lists of up to MaxRules rules a VirtualService of web may hold
\* after edits by other clients: any order, duplicates included.
RuleLists ==
    LET R == {DevRoute("web", "dev1"), DevRoute("web", "dev2"), DefaultRoute("web")}
    IN UNION {[1..k -> R] : k \in 0..MaxRules}

\* One worker handling the deletes of web in both developer namespaces, over
\* a managed VirtualService with any of these rule lists; the Service of web
\* in the default namespace is already gone.
InitRemove ==
    /\ svc = [k \in AllKeys |-> NoSvc]
    /\ \E x \in RuleLists :
         vs = [n \in Names |->
                 IF n = "web"
                 THEN [exists |-> TRUE, managed |-> TRUE, http |-> x, rv |-> 1, owner |-> 0,
                       name |-> VSName(n), ns |-> DefaultNamespace, hosts |-> {n}]
                 ELSE NoVS]
    /\ rvc = [n \in Names |-> IF n = "web" THEN 1 ELSE 0]
    /\ uidc = [n \in Names |-> 0]
    /\ pending = {<<"web", "dev1">>, <<"web", "dev2">>}
    /\ h = [p \in Workers |-> Idle]
    /\ enable = TRUE
    /\ budget = 0
    /\ stable = [p \in Workers |-> FALSE]
    /\ done = [n \in Names |-> NoDone]
    /\ last = NoLast

NextRemove ==
    \/ \E k \in Keys : Start(1, k)
    \/ RecGet(1)
    \/ DdGetVS(1)
    \/ RtGet(1)
    \/ RtUpdate(1)
    \/ DdGetDef(1)
    \/ Finish(1)

SpecRemove == InitRemove /\ [][NextRemove]_vars

\* One worker over a store that fails, with other writers of the
\* VirtualService and with cancellation of the context.
InitRetry ==
    /\ svc = [k \in AllKeys |-> NoSvc]
    /\ vs = [n \in Names |-> NoVS]
    /\ rvc = [n \in Names |-> 0]
    /\ uidc = [n \in Names |-> 0]
    /\ pending = {}
    /\ h = [p \in Workers |-> Idle]
    /\ enable = TRUE
    /\ budget = MaxExtRetry
    /\ stable = [p \in Workers |-> FALSE]
    /\ done = [n \in Names |-> NoDone]
    /\ last = NoLast

NextRetry ==
    \/ Step(1)
    \/ EnvWeb
    \/ ExtTouchVS("web")
    \/ RtGetError(1)
    \/ RtUpdateError(1)
    \/ Cancel(1)

SpecRetry == InitRetry /\ [][NextRetry]_vars

----------------------------------------------------------------------------
(* Vocabulary of the properties *)

\* The developer namespaces that hold a REAL Service named n.
RealNs(n) ==
    {ns \in DevNs : svc[<<n, ns>>].exists /\ ~isPlaceholderService(svc[<<n, ns>>])}

\* The developer namespaces that hold a placeholder named n.
MirrorNs(n) ==
    {ns \in DevNs : svc[<<n, ns>>].exists /\ isPlaceholderService(svc[<<n, ns>>])}

----------------------------------------------------------------------------
(* The controller variant without placeholder Services, as a relation between
   the frame f before and the frame g after one step of a handler *)

V0_Reads == UNCHANGED <<svc, vs, rvc, uidc, pending>>

\* Reconcile: r.Get of the Service and the dispatch on namespace role.
V0_RecGet(f, g) ==
    LET s == svc[<<f.name, f.ns>>] IN
    /\ f.pc = "recGet"
    /\ g = IF ~shouldWatch(f.ns) THEN Return([f EXCEPT !.kind = "ignored"], "ok")
           ELSE IF ~s.exists
           THEN IF f.ns = DefaultNamespace
                THEN [f EXCEPT !.kind = "defDel", !.pc = "delGetVS"]
                ELSE [f EXCEPT !.kind = "devDel", !.pc = "ddGetVS"]
           ELSE IF f.ns = DefaultNamespace
                THEN IF isSystemService(f.name)
                     THEN Return([f EXCEPT !.kind = "defUp"], "ok")
                     ELSE [f EXCEPT !.kind = "defUp", !.uid = s.uid, !.pc = "dfGetVS"]
                ELSE [f EXCEPT !.kind = "devUp", !.pc = "dvGetDef"]
    /\ V0_Reads

\* handleDefaultNamespaceService: r.Get of the VirtualService.
V0_DfGetVS(f, g) ==
    LET v == vs[f.name] IN
    /\ f.pc = "dfGetVS"
    /\ g = IF ~v.exists THEN [f EXCEPT !.pc = "dfCreate"]
           ELSE IF IsManagedByOperator(v)
                THEN Retry([f EXCEPT !.existing = v.http], "reset", <<>>, "ae")
                ELSE Return(f, "ok")
    /\ V0_Reads

\* handleDefaultNamespaceService: r.Create of the generated VirtualService.
V0_DfCreate(f, g) ==
    /\ f.pc = "dfCreate"
    /\ IF vs[f.name].exists
       THEN /\ g = Return(f, "AlreadyExists")
            /\ UNCHANGED <<vs, rvc>>
       ELSE /\ rvc' = [rvc EXCEPT ![f.name] = @ + 1]
            /\ vs' = [vs EXCEPT ![f.name] =
                        [GenerateVirtualService(f.name, f.uid) EXCEPT !.rv = rvc'[f.name]]]
            /\ g = EnterAddExisting(f)
    /\ UNCHANGED <<svc, uidc, pending>>

\* addExistingDeveloperRoutes: r.Get of the Service in one developer
\* namespace; every Service found is added.
V0_AeGet(f, g) ==
    LET t == DeveloperNamespaces[f.idx]
        s == svc[<<f.name, t>>]
        add == IF s.exists THEN Append(f.toAdd, t) ELSE f.toAdd
    IN
    /\ f.pc = "aeGet"
    /\ g = IF NextDev(f.idx) # 0
           THEN [f EXCEPT !.idx = NextDev(f.idx), !.toAdd = add]
           ELSE IF Len(add) > 0
                THEN Retry([f EXCEPT !.toAdd = add], "add", add, "done")
                ELSE Return([f EXCEPT !.toAdd = add], "ok")
    /\ V0_Reads

\* retryVirtualServiceUpdate: r.Get of the latest version.
V0_RtGet(f, g) ==
    LET v == vs[f.name] IN
    /\ f.pc = "rtGet"
    /\ g = IF ~v.exists THEN GetNotFound(f)
           ELSE [f EXCEPT !.pc = "rtUpdate", !.latest = v]
    /\ V0_Reads

\* retryVirtualServiceUpdate: the update function and r.Update.
V0_RtUpdate(f, g) ==
    LET v == vs[f.name]
        new == [f.latest EXCEPT !.http = ApplyUpdate(f.op, f.nss, f.name, f.latest.http),
                                !.hosts = IF f.op = "reset" THEN {f.name} ELSE @]
    IN
    /\ f.pc = "rtUpdate"
    /\ IF ~v.exists
       THEN /\ g = Return([f EXCEPT !.lastErr = "NotFound"], "NotFound")
            /\ UNCHANGED <<vs, rvc>>
       ELSE IF IsConflict(v, new)
       THEN /\ g = NextAttempt([f EXCEPT !.conf = @ + 1], "Conflict")
            /\ UNCHANGED <<vs, rvc>>
       ELSE /\ rvc' = [rvc EXCEPT ![f.name] = @ + 1]
            /\ vs' = [vs EXCEPT ![f.name] = [new EXCEPT !.rv = rvc'[f.name]]]
            /\ g = AfterRetry(f)
    /\ UNCHANGED <<svc, uidc, pending>>

\* handleDeveloperNamespaceService: r.Get of the Service in the default
\* namespace.
V0_DvGetDef(f, g) ==
    /\ f.pc = "dvGetDef"
    /\ g = IF ~svc[<<f.name, DefaultNamespace>>].exists THEN Return(f, "ok")
           ELSE [f EXCEPT !.pc = "dvGetVS"]
    /\ V0_Reads

\* handleDeveloperNamespaceService: r.Get of the VirtualService.
V0_DvGetVS(f, g) ==
    LET v == vs[f.name] IN
    /\ f.pc = "dvGetVS"
    /\ g = IF ~v.exists THEN Return(f, "ok")
           ELSE IF IsManagedByOperator(v) THEN Retry(f, "add", <<f.ns>>, "done")
           ELSE Return(f, "ok")
    /\ V0_Reads

\* handleServiceDeletion, default namespace: r.Get of the VirtualService.
V0_DelGetVS(f, g) ==
    LET v == vs[f.name] IN
    /\ f.pc = "delGetVS"
    /\ g = IF ~v.exists THEN Return(f, "ok")
           ELSE IF IsManagedByOperator(v) THEN [f EXCEPT !.pc = "delDeleteVS"]
           ELSE Return(f, "ok")
    /\ V0_Reads

\* handleServiceDeletion, default namespace: r.Delete, whose result is the
\* handler's result.
V0_DelDeleteVS(f, g) ==
    /\ f.pc = "delDeleteVS"
    /\ IF ~vs[f.name].exists
       THEN /\ g = Return(f, "NotFound")
            /\ UNCHANGED vs
       ELSE /\ vs' = [vs EXCEPT ![f.name] = NoVS]
            /\ g = Return(f, "ok")
    /\ UNCHANGED <<svc, rvc, uidc, pending>>

\* handleServiceDeletion, developer namespace: r.Get of the VirtualService;
\* the result of the removal is the handler's result.
V0_DdGetVS(f, g) ==
    LET v == vs[f.name] IN
    /\ f.pc = "ddGetVS"
    /\ g = IF ~v.exists THEN Return(f, "ok")
           ELSE IF IsManagedByOperator(v) THEN Retry(f, "remove", <<f.ns>>, "done")
           ELSE Return(f, "ok")
    /\ V0_Reads

V0_Step(f, g) ==
    \/ V0_RecGet(f, g)
    \/ V0_DfGetVS(f, g)
    \/ V0_DfCreate(f, g)
    \/ V0_AeGet(f, g)
    \/ V0_RtGet(f, g)
    \/ V0_RtUpdate(f, g)
    \/ V0_DvGetDef(f, g)
    \/ V0_DvGetVS(f, g)
    \/ V0_DelGetVS(f, g)
    \/ V0_DelDeleteVS(f, g)
    \/ V0_DdGetVS(f, g)

\* The frame of that variant which corresponds to a frame of the controller
\* with placeholder support: the variant has returned where the other still
\* reads the default-namespace Service after removing a route.
V0_Frame(f) ==
    IF f.pc = "ddGetDef" THEN Return(f, "ok")
    ELSE IF f.ret = "ddGetDef" THEN [f EXCEPT !.ret = "done"]
    ELSE f

----------------------------------------------------------------------------
(* Vocabulary of the properties *)

\* The namespaces the conditional routes of a rule list match on.
CondNs(http) == {http[i].hdr : i \in {j \in 1..Len(http) : http[j].hdr # ""}}

RECURSIVE WithoutNs(_, _)
\* The rule list http without the rules that match on namespace ns, the
\* others in their order.
WithoutNs(http, ns) ==
    IF http = <<>> THEN <<>>
    ELSE IF Head(http).hdr = ns THEN WithoutNs(Tail(http), ns)
    ELSE <<Head(http)>> \o WithoutNs(Tail(http), ns)

\* The number of rules that match on namespace ns.
RulesFor(http, ns) == Cardinality({i \in 1..Len(http) : http[i].hdr = ns})

\* Exactly one rule without a match, the last one, to n in the default namespace.
FallbackLast(n, http) ==
    /\ Len(http) >= 1
    /\ http[Len(http)] = DefaultRoute(n)
    /\ \A i \in 1..(Len(http) - 1) : http[i].hdr # ""

\* Every conditional rule on ns goes to n in ns.
WellTargeted(n, http) ==
    \A i \in 1..Len(http) : http[i].hdr # "" => http[i] = DevRoute(n, http[i].hdr)

Managed(n) == vs[n].exists /\ IsManagedByOperator(vs[n])

\* Some worker is in the middle of a handler for workload n.
Handling(n) == \E p \in Workers : h[p].name = n /\ h[p].pc \notin {"idle", "done"}

\* Worker p has returned from the handler of the given kind with result r.
Returned(p, kind, r) == h[p].pc = "done" /\ h[p].kind = kind /\ h[p].res = r

----------------------------------------------------------------------------
(* C1 *)

\* C1: once the upsert of n in the default namespace has been handled and
\* then, with no REAL Service of n deleted since, the upsert of n in every
\* developer namespace that holds a REAL Service of n, the VirtualService of n
\* exists (n not being a system Service) and, being managed, has exactly one
\* conditional route per such namespace, none for another namespace, and
\* exactly one default route, which is last (in the states between handlers
\* of n).
C1_RoutesAfterUpserts ==
    \A n \in Names :
        (done[n].def /\ RealNs(n) \subseteq done[n].dev /\ ~Handling(n)) =>
            /\ ~isSystemService(n) => vs[n].exists
            /\ Managed(n) =>
                /\ CondNs(vs[n].http) = RealNs(n)
                /\ \A ns \in RealNs(n) : RulesFor(vs[n].http, ns) = 1
                /\ FallbackLast(n, vs[n].http)
                /\ WellTargeted(n, vs[n].http)

\* The default upsert of web was handled while no developer namespace held a
\* REAL Service, then both developer namespaces got one and their upserts
\* were handled.
C1_Witness ==
    /\ ~Handling("web")
    /\ done["web"].def
    /\ done["web"].dev = {"dev1", "dev2"}
    /\ RealNs("web") = {"dev1", "dev2"}
    /\ Managed("web")
    /\ Len(vs["web"].http) = 3

----------------------------------------------------------------------------
(* C2 *)

\* C2 (as claimed): when the handler of a delete in the default namespace has
\* returned without error, no managed VirtualService of that name exists and
\* no developer namespace holds a placeholder of that name.
C2_DefaultDeleteCleansUp ==
    \A p \in Workers :
        Returned(p, "defDel", "ok") =>
            /\ ~Managed(h[p].name)
            /\ MirrorNs(h[p].name) = {}

----------------------------------------------------------------------------
(* C3 *)

\* C3: when the handler of a delete of n in developer namespace N has returned
\* without error, the managed VirtualService of n, if there is one, has no
\* conditional route on N, whether or not N now holds a placeholder.
C3_DevDeleteStripsRoute ==
    \A p \in Workers :
        (Returned(p, "devDel", "ok") /\ Managed(h[p].name)) =>
            RulesFor(vs[h[p].name].http, h[p].ns) = 0

\* The handler removed a route (its update went through) and then created the
\* placeholder in the same namespace.
C3_Witness ==
    \E p \in Workers :
        /\ Returned(p, "devDel", "ok")
        /\ h[p].att >= 1
        /\ Managed(h[p].name)
        /\ h[p].ns \in MirrorNs(h[p].name)
        /\ vs[h[p].name].rv >= 3

----------------------------------------------------------------------------
(* C4 *)

\* No handler is in progress.
BetweenHandlers == \A p \in Workers : h[p].pc \in {"idle", "done"}

\* C4 (as claimed): in every state in which a handler has completed and none
\* is in progress, no conditional route of a managed VirtualService is on a
\* developer namespace whose Service of that name is a placeholder.
C4_NoMirrorRouted ==
    BetweenHandlers =>
        \A n \in Names : Managed(n) => CondNs(vs[n].http) \cap MirrorNs(n) = {}

----------------------------------------------------------------------------
(* C5 *)

\* Instance p has returned from a developer-namespace upsert of n in ns whose
\* update of the VirtualService was written, with no external change to n
\* since it began.
AddedRoute(p, n, ns) ==
    /\ Returned(p, "devUp", "ok")
    /\ h[p].name = n /\ h[p].ns = ns
    /\ h[p].att >= 1
    /\ stable[p]

\* C5: when two instances of the operator have each added the route of
\* another developer namespace to the same VirtualService through
\* retryVirtualServiceUpdate, in whatever order their reads and writes
\* interleaved, then once both have returned without error the VirtualService
\* holds both routes, each once, and the default route last; an update
\* refused for its version writes nothing and is followed by a new read, and
\* every update written is the mutation applied to the version stored at the
\* time of the write.
C5_BothRoutesSurvive ==
    /\ [](\A p, q \in Replicas : \A n \in Names :
            (/\ AddedRoute(p, n, "dev1") /\ AddedRoute(q, n, "dev2")
             /\ Managed(n)) =>
                /\ RulesFor(vs[n].http, "dev1") = 1
                /\ RulesFor(vs[n].http, "dev2") = 1
                /\ FallbackLast(n, vs[n].http))
    /\ [][\A p \in Replicas :
            (/\ h[p].pc = "rtUpdate" /\ h[p].kind = "devUp"
             /\ h'[p].conf = h[p].conf + 1 /\ h[p].att < Steps) =>
                /\ h'[p].pc = "rtGet" /\ h'[p].att = h[p].att + 1
                /\ vs' = vs]_vars
    /\ [][\A p \in Replicas :
            (/\ h[p].pc = "rtUpdate" /\ h[p].kind = "devUp" /\ h'[p] # h[p]
             /\ vs'[h[p].name] # vs[h[p].name]) =>
                /\ h[p].latest.rv = vs[h[p].name].rv
                /\ vs'[h[p].name].http =
                     UpdateVirtualServiceRoutes(vs[h[p].name].http, h[p].name, h[p].ns)]_vars

\* Both updates were written, and the one of instance 2 lost the version race
\* once: it went through at its second attempt.
C5_Witness ==
    /\ AddedRoute(1, "web", "dev1")
    /\ AddedRoute(2, "web", "dev2")
    /\ h[1].att = 1 /\ h[1].conf = 0
    /\ h[2].att = 2 /\ h[2].conf = 1
    /\ Managed("web")
    /\ RulesFor(vs["web"].http, "dev1") = 1
    /\ RulesFor(vs["web"].http, "dev2") = 1

----------------------------------------------------------------------------
(* C6 *)

\* C6: when an upsert is handled again right after it was handled, with no
\* external change in between, the VirtualService is left with the very rule
\* list the first handling left.
C6_ReplayIsIdempotent ==
    \A p \in Workers :
        (/\ h[p].pc = "done" /\ h[p].res = "ok"
         /\ h[p].kind \in {"defUp", "devUp"}
         /\ stable[p]
         /\ last.valid /\ last.key = <<h[p].name, h[p].ns>>) =>
            /\ vs[h[p].name].exists = last.vsx
            /\ vs[h[p].name].http = last.http

\* A default-namespace upsert replayed over a VirtualService with a
\* conditional route.
C6_Witness ==
    \E p \in Workers :
        /\ Returned(p, "defUp", "ok")
        /\ stable[p]
        /\ last.valid /\ last.key = <<h[p].name, h[p].ns>>
        /\ Managed(h[p].name)
        /\ Len(vs[h[p].name].http) >= 2

----------------------------------------------------------------------------
(* C7 *)

\* Every delivered key has been handled and no handler is running.
Quiescent == pending = {} /\ \A p \in Workers : h[p].pc = "idle"

\* C7 (as claimed): whenever every delivered event has been handled, each
\* workload with a REAL Service in the default namespace and a managed
\* VirtualService has conditional routes on exactly the developer namespaces
\* that hold a REAL Service of its name.
C7_RoutesAreTheRealNamespaces ==
    Quiescent =>
        \A n \in Names :
            (/\ svc[<<n, DefaultNamespace>>].exists
             /\ ~isPlaceholderService(svc[<<n, DefaultNamespace>>])
             /\ Managed(n)) =>
                CondNs(vs[n].http) = RealNs(n)

----------------------------------------------------------------------------
(* C8 *)

\* C8: every managed VirtualService has exactly one rule without a match, it
\* is the last rule, and it goes to the Service in the default namespace.
C8_FallbackLast == \A n \in Names : Managed(n) => FallbackLast(n, vs[n].http)

\* A route was inserted and another removed around the default route.
C8_Witness ==
    /\ Managed("web")
    /\ vs["web"].rv >= 4
    /\ Len(vs["web"].http) = 2
    /\ vs["web"].http[1].hdr = "dev2"

----------------------------------------------------------------------------
(* C9 *)

\* C9: a managed VirtualService never holds two conditional rules on the same
\* developer namespace.
C9_OneRulePerNamespace ==
    \A n \in Names : Managed(n) =>
        \A ns \in DevNs : RulesFor(vs[n].http, ns) <= 1

\* An upsert found the rule of its namespace in place and replaced it.
C9_Witness ==
    \E p \in Workers :
        /\ Returned(p, "devUp", "ok")
        /\ h[p].found
        /\ Managed(h[p].name)
        /\ RulesFor(vs[h[p].name].http, h[p].ns) = 1

----------------------------------------------------------------------------
(* C10 *)

\* Worker p is inside createPlaceholderServices or
\* createSinglePlaceholderService.
InEnsureMirror(p) == h[p].pc \in {"cpGet", "cpCreate", "csGet", "csCreate"}

\* C10: no step of createPlaceholderServices or
\* createSinglePlaceholderService changes or replaces a Service that exists.
C10_EnsureMirrorKeepsExisting ==
    [][\A p \in Workers :
         (InEnsureMirror(p) /\ h'[p] # h[p]) =>
            \A k \in Keys : svc[k].exists => svc'[k] = svc[k]]_vars

\* A REAL Service appeared between the existence check and the create: the
\* create was refused and the Service is still the REAL one.
C10_Witness ==
    \E p \in Workers :
        /\ h[p].pc = "done" /\ h[p].res = "AlreadyExists"
        /\ h[p].kind = "defUp"
        /\ RealNs(h[p].name) # {}

----------------------------------------------------------------------------
(* C11 *)

\* A step of the controller: every step of a handler moves its frame, the
\* return of Reconcile included; no step of the environment does, but the
\* cancellation of a context, which is the step that sets cancelled.
ControllerStep == h' # h /\ \A p \in Workers : ~(~h[p].cancelled /\ h'[p].cancelled)

\* C11 (as claimed): no step of the controller deletes a Service that is REAL
\* at the moment of the delete.
C11_NeverDeletesReal ==
    [][ControllerStep =>
          \A k \in Keys :
              (svc[k].exists /\ ~isPlaceholderService(svc[k])) => svc'[k].exists]_vars

----------------------------------------------------------------------------
(* C12 *)

\* C12 (as claimed): no step of the controller updates or deletes a
\* VirtualService that does not carry the managed-by label when the step is
\* taken.
C12_UnmanagedUntouched ==
    [][ControllerStep =>
          \A n \in Names :
              (vs[n].exists /\ ~IsManagedByOperator(vs[n])) => vs'[n] = vs[n]]_vars

----------------------------------------------------------------------------
(* C13 *)

\* C13 (as claimed): no step of a handler takes from a managed VirtualService
\* that stays in the store a conditional route on a developer namespace other
\* than the handler's own that holds a REAL Service of the workload; this
\* includes the writes a repeated default-namespace upsert makes on its way.
C13_KeepsOtherRoutes ==
    [][\A p \in Workers :
         (h'[p] # h[p] /\ h[p].pc # "idle") =>
            LET n == h[p].name IN
            (Managed(n) /\ vs'[n].exists) =>
                \A ns \in (RealNs(n) \cap CondNs(vs[n].http)) \ {h[p].ns} :
                    ns \in CondNs(vs'[n].http)]_vars

----------------------------------------------------------------------------
(* C14 *)

\* Worker p is inside retryVirtualServiceUpdate.
InRetry(p) == h[p].pc \in {"rtGet", "rtUpdate"}

\* C14 (as claimed): in retryVirtualServiceUpdate only a conflict answered to
\* r.Update is followed by another attempt; after any other failure of the
\* store (r.Get failing otherwise than with NotFound, r.Update failing
\* otherwise than with a conflict) the function has returned that failure.
C14_OnlyConflictRetries ==
    [][\A p \in Workers :
         (/\ InRetry(p) /\ h'[p] # h[p]
          /\ ~h[p].cancelled /\ ~h'[p].cancelled
          /\ h'[p].lastErr \in {"GetError", "UpdateError"}) =>
            /\ h'[p].pc = "done"
            /\ h'[p].res = h'[p].lastErr
            /\ h'[p].att = h[p].att]_vars

----------------------------------------------------------------------------
(* C15 *)

\* C15: when r.Get of an attempt of retryVirtualServiceUpdate finds no
\* VirtualService, the function has returned NotFound after that step: no
\* further attempt, and nothing written or created in the store.
C15_NotFoundFailsAtOnce ==
    [][\A p \in Workers :
         (/\ h[p].pc = "rtGet" /\ h'[p] # h[p]
          /\ ~vs[h[p].name].exists
          /\ budget' = budget /\ ~h'[p].cancelled) =>
            /\ h'[p].pc = "done"
            /\ h'[p].res = "NotFound"
            /\ h'[p].att = h[p].att
            /\ vs' = vs /\ svc' = svc /\ rvc' = rvc]_vars

\* The second attempt of an update, after a conflict, found the
\* VirtualService gone and the handler returned NotFound.
C15_Witness ==
    \E p \in Workers :
        /\ h[p].pc = "done" /\ h[p].res = "NotFound"
        /\ h[p].kind \in {"defUp", "devUp", "devDel"}
        /\ h[p].lastErr = "NotFound"
        /\ h[p].att = 2 /\ h[p].conf = 1
        /\ ~vs[h[p].name].exists

----------------------------------------------------------------------------
(* C16 *)

\* C16 (as claimed): when every attempt of retryVirtualServiceUpdate was
\* answered with a conflict, the error returned is that conflict.
C16_ExhaustionSurfacesConflict ==
    \A p \in Workers :
        (h[p].pc = "done" /\ h[p].conf = Steps /\ h[p].lastErr = "Conflict") =>
            h[p].res = "Conflict"

----------------------------------------------------------------------------
(* C17 *)

\* C17 (as claimed): once the context is cancelled, no step of
\* retryVirtualServiceUpdate starts a further attempt, the function returns
\* with the cancellation as its error, and the step writes nothing.
C17_CancellationAbandons ==
    [][\A p \in Workers :
         (InRetry(p) /\ h[p].cancelled /\ h'[p] # h[p]) =>
            /\ h'[p].att = h[p].att
            /\ h'[p].pc = "done" => h'[p].res = "Canceled"
            /\ vs' = vs]_vars

----------------------------------------------------------------------------
(* C18 *)

\* C18: retryVirtualServiceUpdate never makes a sixth attempt and always
\* comes to an end: a step inside it either passes from the fetch to the write
\* of the same attempt, or starts the next attempt, of which there are at most
\* Steps, or (once) records the cancellation, or returns; and it returns
\* success only after a write.
C18_AtMostFiveAttempts ==
    [][\A p \in Workers :
         (InRetry(p) /\ h'[p] # h[p]) =>
            /\ h'[p].att <= Steps
            /\ h'[p].pc \in {"rtGet", "rtUpdate"} =>
                  \/ /\ h[p].pc = "rtGet" /\ h'[p].pc = "rtUpdate"
                     /\ h'[p].att = h[p].att
                  \/ /\ h'[p].pc = "rtGet"
                     /\ h'[p].att = h[p].att + 1
                  \/ /\ ~h[p].cancelled /\ h'[p].cancelled
                     /\ h'[p].pc = h[p].pc /\ h'[p].att = h[p].att
            /\ (h'[p].pc = "done" /\ vs' = vs) => h'[p].res # "ok"]_vars

\* Five attempts met a conflict each and the function returned a failure.
C18_Witness ==
    \E p \in Workers :
        /\ h[p].pc = "done"
        /\ h[p].att = Steps /\ h[p].conf = Steps
        /\ h[p].res = "ErrWaitTimeout"
        /\ Managed(h[p].name)

----------------------------------------------------------------------------
(* C19 *)

\* The names handleDefaultNamespaceService is to skip.
SystemNames == {"kubernetes", "kube-dns", "kube-system"}

\* C19: the step with which Reconcile dispatches the upsert of a system
\* Service of the default namespace returns success at once and changes
\* neither the Services nor the VirtualServices nor the work queue: no
\* VirtualService and no placeholder is created.
C19_SystemServiceSkipped ==
    [][\A p \in Workers :
         (/\ h'[p] # h[p]
          /\ h'[p].kind = "defUp" /\ h'[p].name \in SystemNames) =>
            /\ h'[p].pc = "done" /\ h'[p].res = "ok"
            /\ svc' = svc /\ vs' = vs /\ rvc' = rvc /\ pending' = pending]_vars

\* The upsert of kube-dns in the default namespace was handled while the
\* feature was on and a developer namespace had no Service of that name.
C19_Witness ==
    \E p \in Workers :
        /\ Returned(p, "defUp", "ok")
        /\ h[p].name = "kube-dns"
        /\ enable
        /\ svc[<<"kube-dns", DefaultNamespace>>].exists
        /\ ~vs["kube-dns"].exists
        /\ \E ns \in DevNs : ~svc[<<"kube-dns", ns>>].exists

----------------------------------------------------------------------------
(* C20 *)

\* C20 (as claimed): when the upsert of n in the default namespace has been
\* handled without error, with no external change to n meanwhile, a managed
\* VirtualService of n is owned by the Service of n that exists in the default
\* namespace (the UID of its owner reference is the UID of that Service).
C20_OwnedByCurrentService ==
    \A p \in Workers :
        (/\ Returned(p, "defUp", "ok") /\ stable[p]
         /\ Managed(h[p].name)
         /\ svc[<<h[p].name, DefaultNamespace>>].exists) =>
            vs[h[p].name].owner = svc[<<h[p].name, DefaultNamespace>>].uid

----------------------------------------------------------------------------
(* C21 *)

\* C21 (as claimed): no step of a handler of an event for a system name, of
\* whatever kind and in whatever namespace, creates, changes or deletes a
\* Service or a VirtualService.
C21_SystemNameIsNoOp ==
    [][\A p \in Workers :
         (h'[p] # h[p] /\ h[p].name \in SystemNames) =>
            svc' = svc /\ vs' = vs]_vars

----------------------------------------------------------------------------
(* C22 *)

\* C22 (as claimed): the handler of an upsert in the default namespace creates
\* a placeholder of its workload only in a state in which the VirtualService of
\* the workload exists.
C22_VirtualServiceBeforeMirrors ==
    [][\A p \in Workers :
         (/\ h[p].kind = "defUp" /\ h'[p] # h[p]
          /\ \E ns \in DevNs : /\ ~svc[<<h[p].name, ns>>].exists
                               /\ svc'[<<h[p].name, ns>>].exists) =>
            vs[h[p].name].exists]_vars

----------------------------------------------------------------------------
(* C23 *)

\* C23 (as claimed): when one instance of the operator has returned from the
\* upsert of n in the default namespace and the other from the delete of n in
\* developer namespace N, both without error and with no external change to
\* n since the delete handler began, the managed VirtualService of n has no
\* conditional route on N, however the steps of the two handlers interleaved.
C23_ScanAgainstDelete ==
    \A p, q \in Replicas :
        (/\ Returned(p, "defUp", "ok")
         /\ Returned(q, "devDel", "ok") /\ stable[q]
         /\ h[q].name = h[p].name
         /\ h[q].ns \notin RealNs(h[q].name)
         /\ Managed(h[p].name)) =>
            RulesFor(vs[h[p].name].http, h[q].ns) = 0

----------------------------------------------------------------------------
(* C24 *)

\* C24 (as claimed): when web has been deleted from the default namespace
\* and from dev1, in either order, and the handlers of both deletions have
\* returned (the queue is empty and the worker idle), no developer namespace
\* holds a placeholder of web.
C24_DeletesLeaveNoMirror ==
    (/\ pending = {} /\ \A p \in Workers : h[p].pc = "idle"
     /\ budget = 0
     /\ ~svc[<<"web", DefaultNamespace>>].exists) =>
        MirrorNs("web") = {}

----------------------------------------------------------------------------
(* C25 *)

\* C25 (as claimed): when the handler of a delete of n in developer namespace
\* N has returned, with the feature enabled and no external change to n since
\* it began, N holds a placeholder of n if and only if the default namespace
\* holds a Service n, whatever became of the VirtualService and of the update
\* that removes the route of N from it.
C25_MirrorIffDefault ==
    \A p \in Workers :
        (/\ h[p].pc = "done" /\ h[p].kind = "devDel"
         /\ stable[p] /\ enable) =>
            (h[p].ns \in MirrorNs(h[p].name)
                <=> svc[<<h[p].name, DefaultNamespace>>].exists)

----------------------------------------------------------------------------
(* C26 *)

\* C26: when the handler of an upsert of a non-system name n in the default
\* namespace has returned without error, with the feature enabled and no
\* external change to n since it began, every developer namespace holds a
\* Service n; and every Service a default-namespace upsert handler creates is
\* a placeholder carrying the annotation and pointing at the default
\* namespace.
C26_MirrorsEverywhere ==
    /\ [](\A p \in Workers :
            (/\ Returned(p, "defUp", "ok") /\ stable[p] /\ enable
             /\ h[p].name \notin SystemNames) =>
                \A ns \in DevNs : svc[<<h[p].name, ns>>].exists)
    /\ [][\A p \in Workers : \A k \in Keys :
            (/\ h[p].kind = "defUp" /\ h'[p] # h[p]
             /\ ~svc[k].exists /\ svc'[k].exists) =>
                /\ k[1] = h[p].name /\ k[2] \in DevNs
                /\ svc'[k].ann /\ svc'[k].ext = DefaultNamespace]_vars

\* The handler returned after creating a placeholder in one developer
\* namespace and finding a Service of its own in the other.
C26_Witness ==
    \E p \in Workers :
        /\ Returned(p, "defUp", "ok") /\ stable[p] /\ enable
        /\ h[p].name \notin SystemNames
        /\ MirrorNs(h[p].name) # {} /\ RealNs(h[p].name) # {}

----------------------------------------------------------------------------
(* C27 *)

\* C27: the handler that reads, in a developer namespace, a Service carrying
\* the placeholder annotation returns success in that very step, and the step
\* changes no Service and no VirtualService (so no route is added for the
\* namespace of a placeholder the controller created).
C27_PlaceholderUpsertIsNoOp ==
    [][\A p \in Workers :
         (/\ h[p].pc = "recGet" /\ h'[p] # h[p]
          /\ h[p].ns \in DevNs
          /\ svc[<<h[p].name, h[p].ns>>].exists
          /\ svc[<<h[p].name, h[p].ns>>].ann) =>
            /\ h'[p].pc = "done" /\ h'[p].res = "ok"
            /\ svc' = svc /\ vs' = vs /\ rvc' = rvc]_vars

\* The upsert of a placeholder was handled while the managed VirtualService
\* of the name exists: it has no rule for the placeholder's namespace.
C27_Witness ==
    \E p \in Workers :
        /\ Returned(p, "devUp", "ok") /\ stable[p]
        /\ svc[<<h[p].name, h[p].ns>>].exists
        /\ svc[<<h[p].name, h[p].ns>>].ann
        /\ Managed(h[p].name)
        /\ RulesFor(vs[h[p].name].http, h[p].ns) = 0

----------------------------------------------------------------------------
(* C28 *)

\* C28: in the handler of an upsert of a Service of its own in a developer
\* namespace, the reads of the default-namespace Service and of the
\* VirtualService change no Service and no VirtualService, and when the
\* VirtualService read is absent or lacks the managed label the handler
\* returns success at that read.
C28_NoVirtualServiceNoChange ==
    [][\A p \in Workers :
         (h[p].pc \in {"dvGetDef", "dvGetVS"} /\ h'[p] # h[p]) =>
            /\ svc' = svc /\ vs' = vs /\ rvc' = rvc
            /\ (/\ h[p].pc = "dvGetVS"
                /\ (~vs[h[p].name].exists \/ ~vs[h[p].name].managed)) =>
                    h'[p].pc = "done" /\ h'[p].res = "ok"]_vars

\* The upsert was handled while the default-namespace Service exists and the
\* VirtualService of the name is a hand-authored one.
C28_Witness ==
    \E p \in Workers :
        /\ Returned(p, "devUp", "ok") /\ stable[p]
        /\ h[p].ns \in RealNs(h[p].name)
        /\ svc[<<h[p].name, DefaultNamespace>>].exists
        /\ vs[h[p].name].exists /\ ~vs[h[p].name].managed

----------------------------------------------------------------------------
(* C29 *)

\* C29: with handlers run one at a time and the feature enabled, when the
\* handler of an upsert of a Service of its own n in developer namespace N
\* has returned without error and the default namespace holds no Service n,
\* N holds a Service for every non-system name that has one in the default
\* namespace; and every step of ensurePlaceholderServicesForNamespace in such
\* a handler changes no VirtualService and changes Services only by creating
\* a placeholder of a non-system name in N.
C29_BackfillsNamespace ==
    /\ [](\A p \in Workers :
            (/\ Returned(p, "devUp", "ok") /\ enable
             /\ h[p].ns \in RealNs(h[p].name)
             /\ ~svc[<<h[p].name, DefaultNamespace>>].exists) =>
                \A x \in Names \ SystemNames :
                    svc[<<x, DefaultNamespace>>].exists =>
                        svc[<<x, h[p].ns>>].exists)
    /\ [][\A p \in Workers :
            (/\ h[p].kind = "devUp" /\ h'[p] # h[p]
             /\ h[p].pc \in {"ensList", "csGet", "csCreate"}) =>
                /\ vs' = vs /\ rvc' = rvc
                /\ \A k \in Keys :
                     svc'[k] # svc[k] =>
                        /\ k[2] = h[p].ns /\ k[1] \notin SystemNames
                        /\ ~svc[k].exists
                        /\ svc[<<k[1], DefaultNamespace>>].exists
                        /\ svc'[k].ann /\ svc'[k].ext = DefaultNamespace]_vars

\* The handler created a placeholder of another name in its namespace, and
\* the other developer namespace still has none.
C29_Witness ==
    \E p \in Workers : \E x \in Names \ SystemNames : \E m \in DevNs :
        /\ Returned(p, "devUp", "ok") /\ enable
        /\ h[p].ns \in RealNs(h[p].name)
        /\ ~svc[<<h[p].name, DefaultNamespace>>].exists
        /\ svc[<<x, DefaultNamespace>>].exists
        /\ h[p].ns \in MirrorNs(x)
        /\ m # h[p].ns /\ ~svc[<<x, m>>].exists

----------------------------------------------------------------------------
(* C30 *)

\* C30 (as claimed): the handler of a delete in the default namespace, which
\* reads and deletes the VirtualService and the placeholders directly, never
\* returns a NotFound error: an object that is already gone, also one removed
\* by another actor between the handler's r.Get and its r.Delete, is nothing
\* to do.
C30_MissingObjectNeverFails ==
    \A p \in Workers :
        (h[p].pc = "done" /\ h[p].kind = "defDel") => h[p].res # "NotFound"

----------------------------------------------------------------------------
(* C31 *)

\* C31 (as claimed): when the handler of an upsert in the default namespace
\* has returned without error, with no external change to the name since it
\* began, any two developer namespaces that had a rule in the VirtualService
\* the handler read and still have one now are in the same relative order as
\* before.
C31_OrderKept ==
    \A p \in Workers : \A a, b \in DevNs :
        (/\ Returned(p, "defUp", "ok") /\ stable[p]
         /\ Managed(h[p].name)
         /\ FindRoute(h[p].existing, a) # 0 /\ FindRoute(h[p].existing, b) # 0
         /\ FindRoute(vs[h[p].name].http, a) # 0
         /\ FindRoute(vs[h[p].name].http, b) # 0
         /\ FindRoute(h[p].existing, a) < FindRoute(h[p].existing, b)) =>
            FindRoute(vs[h[p].name].http, a) < FindRoute(vs[h[p].name].http, b)

----------------------------------------------------------------------------
(* C32 *)

\* C32: the write that removes the route of namespace N stores the rule list
\* it read without the rules that match on N, every other rule (the fallback
\* included) kept in its order; when no rule matches on N the stored list is
\* the list read; and removing N from a list twice gives the same list as
\* removing it once.
C32_RemovesExactly ==
    /\ [][\A p \in Workers :
            (/\ h[p].pc = "rtUpdate" /\ h[p].op = "remove"
             /\ vs'[h[p].name] # vs[h[p].name]) =>
                /\ vs'[h[p].name].http = WithoutNs(h[p].latest.http, h[p].ns)
                /\ RulesFor(h[p].latest.http, h[p].ns) = 0 =>
                      vs'[h[p].name].http = h[p].latest.http]_vars
    /\ [](\A n \in Names : \A ns \in DevNs :
            RemoveNamespaceRoutes(RemoveNamespaceRoutes(vs[n].http, ns), ns)
                = RemoveNamespaceRoutes(vs[n].http, ns))

\* The delete of web in dev1 was handled first, with one write of the
\* VirtualService: the fallback alone is left, and the delete of web in dev2
\* is still queued.
C32_Witness ==
    \E p \in Workers :
        /\ Returned(p, "devDel", "ok") /\ h[p].ns = "dev1"
        /\ <<"web", "dev2">> \in pending
        /\ vs["web"].rv = 2
        /\ vs["web"].http = <<DefaultRoute("web")>>

----------------------------------------------------------------------------
(* C33 *)

\* C33: a step of the handler of a default-namespace upsert at the r.Update
\* that adds the routes found by its scan either ends the handler with
\* success, and the stored VirtualService then has a rule for every namespace
\* of the batch, or (conflict, failure, cancellation) leaves the stored
\* VirtualService exactly as it was.
C33_BatchInOneWrite ==
    [][\A p \in Workers :
         (/\ h[p].pc = "rtUpdate" /\ h[p].op = "add" /\ h[p].kind = "defUp"
          /\ h'[p] # h[p]) =>
            IF h'[p].pc = "done" /\ h'[p].res = "ok"
            THEN \A i \in 1..Len(h[p].nss) :
                    FindRoute(vs'[h[p].name].http, h[p].nss[i]) # 0
            ELSE vs'[h[p].name] = vs[h[p].name] /\ rvc' = rvc]_vars

\* A batch of two namespaces was committed at the second attempt, after a
\* conflict.
C33_Witness ==
    \E p \in Workers :
        /\ Returned(p, "defUp", "ok") /\ stable[p]
        /\ h[p].conf >= 1
        /\ RulesFor(vs[h[p].name].http, "dev1") = 1
        /\ RulesFor(vs[h[p].name].http, "dev2") = 1

----------------------------------------------------------------------------
(* C34 *)

\* C34 (as claimed): the handler of an upsert in a developer namespace takes
\* the Service it read for a placeholder, and returns at once, if and only if
\* the Service carries the placeholder annotation or is an ExternalName
\* Service whose target is in the configured default namespace.
C34_DetectsAsSpecified ==
    [][\A p \in Workers :
         (/\ h[p].pc = "recGet" /\ h'[p] # h[p]
          /\ h[p].ns \in DevNs
          /\ svc[<<h[p].name, h[p].ns>>].exists) =>
            (h'[p].pc = "done"
                <=> \/ svc[<<h[p].name, h[p].ns>>].ann
                    \/ svc[<<h[p].name, h[p].ns>>].ext = DefaultNamespace)]_vars

----------------------------------------------------------------------------
(* C35 *)

\* C35: the r.Create of handleDefaultNamespaceService, when no VirtualService
\* of workload W exists, stores an object named W-virtual-service in the
\* default namespace, with hosts {W}, the managed label and the single rule
\* that sends everything to W in the default namespace, whatever Services
\* the developer namespaces hold; no other VirtualService changes.
C35_CreatedFallbackOnly ==
    [][\A p \in Workers :
         (/\ h[p].pc = "dfCreate" /\ h'[p] # h[p]
          /\ ~vs[h[p].name].exists) =>
            /\ vs'[h[p].name].exists
            /\ vs'[h[p].name].name = <<h[p].name, "virtual-service">>
            /\ vs'[h[p].name].ns = DefaultNamespace
            /\ vs'[h[p].name].hosts = {h[p].name}
            /\ vs'[h[p].name].managed
            /\ vs'[h[p].name].http
                 = <<[hdr |-> "", host |-> <<h[p].name, DefaultNamespace>>]>>
            /\ \A m \in Names \ {h[p].name} : vs'[m] = vs[m]]_vars

\* The VirtualService was just created, with the fallback rule alone, while a
\* developer namespace holds a Service of the workload's own.
C35_Witness ==
    \E p \in Workers :
        /\ h[p].pc = "aeGet" /\ h[p].kind = "defUp"
        /\ vs[h[p].name].exists /\ vs[h[p].name].managed
        /\ vs[h[p].name].rv = 1
        /\ vs[h[p].name].http = <<DefaultRoute(h[p].name)>>
        /\ RealNs(h[p].name) # {}

----------------------------------------------------------------------------
(* C36 *)

\* C36: while the placeholder feature is disabled, no step of a handler
\* creates, changes or deletes a Service.
C36_DisabledTouchesNoService ==
    [][(~enable /\ \E p \in Workers : h'[p] # h[p]) => svc' = svc]_vars

\* With the feature switched off, the delete of a default-namespace Service
\* was handled and its VirtualService deleted; the placeholders created
\* earlier are still there.
C36_Witness ==
    \E p \in Workers :
        /\ ~enable
        /\ Returned(p, "defDel", "ok") /\ stable[p]
        /\ ~vs[h[p].name].exists
        /\ MirrorNs(h[p].name) = DevNs

----------------------------------------------------------------------------
(* C37 *)

\* C37 (as claimed): with the placeholder feature off and no Service in the
\* store that isPlaceholderService recognises, every step of a handler of the
\* controller with placeholder support is a step of the variant without it
\* from the corresponding frame, with the same writes of the VirtualService
\* and the same result, or changes neither the corresponding frame nor the
\* store.
C37_SameAsVariant ==
    [][\A p \in Workers :
         (/\ ~enable
          /\ \A k \in Keys : ~(svc[k].exists /\ (svc[k].ann \/ svc[k].lbl
                                                 \/ svc[k].ext = "default"))
          /\ h[p].pc \notin {"idle", "done"}
          /\ h'[p] # h[p]) =>
            \/ V0_Step(V0_Frame(h[p]), V0_Frame(h'[p]))
            \/ /\ V0_Frame(h'[p]) = V0_Frame(h[p])
               /\ svc' = svc /\ vs' = vs]_vars

----------------------------------------------------------------------------
(* C38 *)

\* C38: a step of a handler for workload n leaves the VirtualService of
\* every other workload as it is, whatever the kind of event and whatever
\* events of other workloads were handled before or are in the queue.
C38_OtherVirtualServicesUntouched ==
    [][\A p \in Workers :
         (h'[p] # h[p] /\ h[p].pc \notin {"idle", "done"}) =>
            \A m \in Names \ {h[p].name} :
                vs'[m] = vs[m] /\ rvc'[m] = rvc[m]]_vars

\* A handler has added a route to the VirtualService of its workload while
\* another workload has its managed VirtualService and a key in the queue.
C38_Witness ==
    \E p \in Workers : \E m \in Names \ {h[p].name} :
        /\ Returned(p, "devUp", "ok")
        /\ RulesFor(vs[h[p].name].http, h[p].ns) = 1
        /\ Managed(m)
        /\ \E k \in pending : k[1] = m

----------------------------------------------------------------------------
(* C39 *)

\* C39: the creation or deletion of a Service in a namespace that is neither
\* the default namespace nor a developer namespace puts no key in the queue;
\* the handler of a key of such a namespace that is in the queue returns
\* success at its first step, whether or not a Service exists at the key, and
\* changes no Service and no VirtualService.
C39_UnwatchedIgnored ==
    /\ [][\A k \in AllKeys :
            (k[2] \notin {DefaultNamespace} \cup DevNs /\ k \in pending') =>
                k \in pending]_vars
    /\ [][\A p \in Workers :
            (/\ h[p].pc \notin {"idle", "done"} /\ h'[p] # h[p]
             /\ h[p].ns \notin {DefaultNamespace} \cup DevNs) =>
               /\ h'[p].pc = "done" /\ h'[p].res = "ok"
               /\ svc' = svc /\ vs' = vs /\ rvc' = rvc]_vars

\* The key of an existing Service in a namespace that is not watched was
\* handled while the managed VirtualService of the name exists: it has no
\* rule for that namespace.
C39_Witness ==
    \E p \in Workers :
        /\ h[p].pc = "done" /\ h[p].res = "ok"
        /\ h[p].ns = OtherNamespace
        /\ svc[<<h[p].name, OtherNamespace>>].exists
        /\ Managed(h[p].name)
        /\ RulesFor(vs[h[p].name].http, OtherNamespace) = 0

====
